---- MODULE Spec2Model ----
(***************************************************************************)
(* Appointment lifecycle and reminder orchestration of the AI receptionist *)
(* server: the reminder scheduler (server/reminder-scheduler, kept in      *)
(* src/server/storage.ts lines 197-332), the record store                  *)
(* (DatabaseStorage, src/unnamed/part_002) and the inbound handlers of     *)
(* src/server/routes.ts.                                                   *)
(*                                                                         *)
(* Every handler is an async function; it is cut into one action per       *)
(* store access (the awaits at which other handlers can run).  The         *)
(* external collaborators (store transport, email, Twilio, Mailchimp)      *)
(* answer nondeterministically: they succeed or they throw.                *)
(***************************************************************************)
EXTENDS Integers, Sequences, FiniteSets, TLC

VARIABLES
    appts,      \* the appointments table: id -> row
    clock,      \* wall clock, in hours since the process started
    proc,       \* per handler slot: which handler, where it is, what it answered
    att,        \* per slot: the running sendAppointmentReminder invocation
    swp,        \* per slot: the running sweep (its list and what it did)
    delivered,  \* per appointment: the claim time of the last invocation that attempted
                \* delivery, and whether two of them claimed within one cooldown window
    life,       \* per slot: the running reschedule / cancel / payment handler
    runs,       \* handlers started so far
    probe,      \* the last appointment lookup made on its own: its inputs and result
    made,       \* the appointments created by bookings, in order of creation
    conv,       \* the conversations: id -> status ("none": not created yet)
    dispatched, \* per appointment and occasion: the dispatches that reached a customer
    sched       \* the reminder scheduler: its timer, and the sweeps whose listing failed

vars == <<appts, clock, proc, att, swp, delivered, life, runs, probe, made, conv,
          dispatched, sched>>

(***************************************************************************)
(* Bounds of the model.                                                    *)
(***************************************************************************)
MaxTicks == 2       \* clock advances at most this many times
TickHours == 6      \* hours per clock advance
MaxRuns == 2        \* handlers started in one behaviour

(***************************************************************************)
(* Program constants.                                                      *)
(***************************************************************************)
CooldownHours == 12
PeriodHours == 1

Procs == {"p1", "p2"}
AppIds == {"a1", "a2"}
MissingId == "a0"
None == "none"

DayOf(t) == t \div 24

(***************************************************************************)
(* The store (DatabaseStorage).                                            *)
(***************************************************************************)
Terminal(a) == a.status \in {"cancelled", "completed"}

\* getAllAppointments: SELECT ... ORDER BY created_at DESC
getAllAppointments ==
    CHOOSE s \in [1..Cardinality(AppIds) -> AppIds] :
        /\ \A i, j \in DOMAIN s : i < j => appts[s[i]].created > appts[s[j]].created
        /\ \A id \in AppIds : \E i \in DOMAIN s : s[i] = id

\* MemStorage.getAllAppointments: Array.from(map.values()), the rows in the
\* order they were inserted (updateAppointment keeps a row's place)
memGetAllAppointments ==
    CHOOSE s \in [1..Cardinality(AppIds) -> AppIds] :
        /\ \A i, j \in DOMAIN s : i < j => appts[s[i]].created < appts[s[j]].created
        /\ \A id \in AppIds : \E i \in DOMAIN s : s[i] = id

\* the listing of the store in use: storage.ts 195 exports a MemStorage,
\* unnamed/part_002 654 a DatabaseStorage
Listing(storage) ==
    IF storage = "MemStorage" THEN memGetAllAppointments ELSE getAllAppointments

\* updateAppointment(id, {lastReminderSentAt: new Date()})
WithReminderStamp(id, now) == [appts EXCEPT ![id].lastRem = <<now>>]

(***************************************************************************)
(* Handler slots.                                                          *)
(***************************************************************************)
NoApt == [status |-> None]

InFlight(p) == proc[p].pc \notin {"idle", "done"}

\* A new handler takes the first slot in which none is running (what a
\* finished handler left there is dropped); the slots are interchangeable.
Free(p) ==
    /\ ~InFlight(p)
    /\ p = "p2" => InFlight("p1")

FreshProc(kind, pc) == [kind |-> kind, pc |-> pc, resp |-> None]

FreshSweep == [log |-> <<>>, listed |-> <<>>]

\* What a handler hands to the notifiers: the occasion, the notifier calls
\* made, those that failed, the appointment row they were given, and whether
\* an exception left the dispatch.
NoDispatch == [occ |-> None, called |-> {}, failed |-> {}, row |-> NoApt, threw |-> FALSE]

\* The locals of a reschedule / cancel / payment handler, and what is
\* observed of it: looked (the lookup ran), same (a non-terminal appointment
\* of the same customer existed at the lookup), incomplete (a reschedule
\* without date or time), wrote / wver (its write and the row version it
\* produced), storeErr (a store call threw), conc (it ran while another
\* handler was running), op (for a booking: the number of the handler), cid
\* (the conversation of the turn), esc (the resolver required escalation).
FreshLife ==
    [intent |-> None, target |-> None, snap |-> NoApt,
     date |-> 0, time |-> None, service |-> None,
     looked |-> FALSE, same |-> FALSE, incomplete |-> FALSE,
     wrote |-> FALSE, wver |-> 0, storeErr |-> FALSE, conc |-> FALSE,
     sent |-> NoDispatch, op |-> 0, cid |-> None, esc |-> FALSE]

(***************************************************************************)
(* sendAppointmentReminder                                                 *)
(***************************************************************************)
FreshAtt ==
    [target |-> None, apt |-> NoApt, cool |-> FALSE, claimed |-> FALSE,
     claimAt |-> <<>>, attempts |-> {}, failed |-> {}, out |-> "none"]

\* (variant: the age of the stamp compared against half the window)
RecentlyRemindedHalfWindow(a, now) ==
    /\ a.lastRem # <<>>
    /\ now - a.lastRem[1] < CooldownHours \div 2

\* lines 218-227: a reminder stamp younger than the cooldown
RecentlyReminded(a, now) ==
    /\ a.lastRem # <<>>
    /\ now - a.lastRem[1] < CooldownHours

\* the cooldown as the specification states it (for the observations)
InCooldown(a, now) == a.lastRem # <<>> /\ now - a.lastRem[1] < 12

InReminder(p) == proc[p].kind \in {"manual", "sweep"}

\* lines 290-297: the sweep's filter
IsUpcoming(a, now) ==
    /\ ~Terminal(a)
    /\ a.date = DayOf(now) + 1

\* What is kept of an invocation once it has ended.
Closed(a, out) == [a EXCEPT !.out = out, !.apt = NoApt, !.claimAt = <<>>]

\* (variant: no try/catch around the call in the sweep's loop, so an error
\* leaves the loop)
FinishOrAbortSweep(p, a, out) ==
    IF proc[p].kind = "manual"
    THEN /\ proc' = [proc EXCEPT ![p].pc = "done",
                                 ![p].resp = IF out = "error" THEN "500" ELSE "200"]
         /\ att' = [att EXCEPT ![p] = Closed(a, out)]
         /\ UNCHANGED swp
    ELSE LET log == Append(swp[p].log, Closed(a, out)) IN
         /\ swp' = [swp EXCEPT ![p].log = log]
         /\ IF Len(log) < Len(swp[p].listed) /\ out # "error"
            THEN /\ proc' = [proc EXCEPT ![p].pc = "get"]
                 /\ att' = [att EXCEPT ![p] =
                               [FreshAtt EXCEPT !.target = swp[p].listed[Len(log) + 1]]]
            ELSE /\ proc' = [proc EXCEPT ![p].pc = "done"]
                 /\ att' = [att EXCEPT ![p] = FreshAtt]

\* The invocation ends with outcome `out` ("ok" or "error").  A manual
\* trigger answers its caller (routes.ts 1449-1454); a sweep logs the error
\* and goes on with the next appointment (lines 302-309).
Finish(p, a, out) ==
    IF proc[p].kind = "manual"
    THEN /\ proc' = [proc EXCEPT ![p].pc = "done",
                                 ![p].resp = IF out = "error" THEN "500" ELSE "200"]
         /\ att' = [att EXCEPT ![p] = Closed(a, out)]
         /\ UNCHANGED swp
    ELSE LET log == Append(swp[p].log, Closed(a, out)) IN
         /\ swp' = [swp EXCEPT ![p].log = log]
         /\ IF Len(log) < Len(swp[p].listed)
            THEN /\ proc' = [proc EXCEPT ![p].pc = "get"]
                 /\ att' = [att EXCEPT ![p] =
                               [FreshAtt EXCEPT !.target = swp[p].listed[Len(log) + 1]]]
            ELSE /\ proc' = [proc EXCEPT ![p].pc = "done"]
                 /\ att' = [att EXCEPT ![p] = FreshAtt]

\* lines 203-227: read the appointment, then the three early exits
ReminderGet(p) ==
    /\ InReminder(p) /\ proc[p].pc = "get"
    /\ UNCHANGED <<appts, clock, delivered, life, runs>>
    /\ \E storeOk \in BOOLEAN :
        LET id == att[p].target IN
        IF ~storeOk \/ id \notin AppIds
        THEN Finish(p, att[p], "error")
        ELSE LET a == appts[id]
                 seen == [att[p] EXCEPT !.apt = a, !.cool = InCooldown(a, clock)]
             IN  IF Terminal(a) \/ RecentlyReminded(a, clock)
                 THEN Finish(p, seen, "ok")
                 ELSE /\ att' = [att EXCEPT ![p] = seen]
                      /\ proc' = [proc EXCEPT ![p].pc = "claim"]
                      /\ UNCHANGED swp

\* (variant: the stamp is written only after the delivery)
ReminderClaimDeferred(p) ==
    /\ InReminder(p) /\ proc[p].pc = "claim"
    /\ UNCHANGED <<appts, clock, delivered, life, runs, swp>>
    /\ att' = [att EXCEPT ![p].claimAt = <<clock>>]
    /\ proc' = [proc EXCEPT ![p].pc = "deliver"]

\* lines 229-233: the claim, written before any delivery
ReminderClaim(p) ==
    /\ InReminder(p) /\ proc[p].pc = "claim"
    /\ UNCHANGED <<clock, delivered, life, runs>>
    /\ \E storeOk \in BOOLEAN :
        IF ~storeOk
        THEN /\ Finish(p, att[p], "error")
             /\ UNCHANGED appts
        ELSE /\ appts' = WithReminderStamp(att[p].target, clock)
             /\ att' = [att EXCEPT ![p].claimed = TRUE, ![p].claimAt = <<clock>>]
             /\ proc' = [proc EXCEPT ![p].pc = "deliver"]
             /\ UNCHANGED swp

\* lines 237-245: the email channel.  sent: whether the transport accepted it.
AfterEmail(a, sent) ==
    IF a.apt.email = None
    THEN a
    ELSE [a EXCEPT !.attempts = @ \cup {"email"},
                   !.failed = IF sent THEN @ ELSE @ \cup {"email"}]

\* lines 247-265: the SMS channel.  twilio is what the Twilio client answers:
\* "unconfigured" (no from-number: nothing is sent, nothing is thrown),
\* "throws" (the client cannot be obtained), "sent" or "rejected"
\* (messages.create).
AfterSms(a, twilio) ==
    IF a.apt.phone = None
    THEN a
    ELSE [a EXCEPT !.attempts = IF twilio = "unconfigured" THEN @ ELSE @ \cup {"sms"},
                   !.failed = IF twilio \in {"throws", "rejected"}
                              THEN @ \cup {"sms"} ELSE @]

\* (variant: delivery errors are logged and swallowed)
ReminderReportSwallowed(a) == "ok"

\* lines 267-276: any collected delivery error is thrown to the caller
ReminderReport(a) == IF a.failed # {} THEN "error" ELSE "ok"

\* What a test double notifier sees of the invocations that reach it.
Observed(d, at) ==
    [last |-> <<at>>,
     twice |-> d.twice \/ (d.last # <<>> /\ at - d.last[1] < 12 /\ d.last[1] - at < 12)]

\* lines 235-276: both channels in turn, each in its own try/catch, then the
\* report.  Nothing of the store is read or written here.
ReminderDeliver(p) ==
    /\ InReminder(p) /\ proc[p].pc = "deliver"
    /\ UNCHANGED <<appts, clock, life, runs>>
    /\ \E sent \in BOOLEAN, twilio \in {"unconfigured", "throws", "sent", "rejected"} :
        LET a == AfterSms(AfterEmail(att[p], sent), twilio) IN
        /\ Finish(p, a, ReminderReport(a))
        /\ delivered' = IF a.attempts # {}
                        THEN [delivered EXCEPT ![a.target] = Observed(@, a.claimAt[1])]
                        ELSE delivered

\* lines 240 and 254-259: the awaited call of a notifier that never answers.
\* No timeout bounds the await, so the invocation stays there.
ReminderHang(p) ==
    /\ InReminder(p) /\ proc[p].pc = "deliver"
    /\ att[p].apt.email # None \/ att[p].apt.phone # None
    /\ UNCHANGED <<appts, clock, att, swp, delivered, life, runs>>
    /\ proc' = [proc EXCEPT ![p].pc = "hung"]

(***************************************************************************)
(* POST /api/reminders/send and the periodic sweep                         *)
(***************************************************************************)
\* routes.ts 1441-1449: the manual trigger
ManualStart(p) ==
    /\ Free(p) /\ runs < MaxRuns
    /\ runs' = runs + 1
    /\ UNCHANGED <<appts, clock, delivered>>
    /\ life' = [life EXCEPT ![p] = FreshLife]
    /\ swp' = [swp EXCEPT ![p] = FreshSweep]
    /\ \E id \in AppIds \cup {MissingId, None} :
        IF id = None
        THEN /\ proc' = [proc EXCEPT ![p] = [FreshProc("manual", "done") EXCEPT !.resp = "400"]]
             /\ att' = [att EXCEPT ![p] = FreshAtt]
        ELSE /\ proc' = [proc EXCEPT ![p] = FreshProc("manual", "get")]
             /\ att' = [att EXCEPT ![p] = [FreshAtt EXCEPT !.target = id]]

\* lines 279-299: list the appointments and keep those of tomorrow
SweepStart(p) ==
    /\ Free(p) /\ runs < MaxRuns
    /\ runs' = runs + 1
    /\ UNCHANGED <<appts, clock, delivered>>
    /\ life' = [life EXCEPT ![p] = FreshLife]
    /\ \E storeOk \in BOOLEAN :
        LET due == SelectSeq(getAllAppointments, LAMBDA id : IsUpcoming(appts[id], clock)) IN
        IF ~storeOk \/ due = <<>>
        THEN /\ proc' = [proc EXCEPT ![p] = FreshProc("sweep", "done")]
             /\ swp' = [swp EXCEPT ![p] = FreshSweep]
             /\ att' = [att EXCEPT ![p] = FreshAtt]
        ELSE /\ proc' = [proc EXCEPT ![p] = FreshProc("sweep", "get")]
             /\ swp' = [swp EXCEPT ![p] = [log |-> <<>>, listed |-> due]]
             /\ att' = [att EXCEPT ![p] = [FreshAtt EXCEPT !.target = due[1]]]

\* time passes
Tick ==
    /\ clock + TickHours <= MaxTicks * TickHours
    /\ clock' = clock + TickHours
    /\ UNCHANGED <<appts, proc, att, swp, delivered, life, runs>>

(***************************************************************************)
(* Reschedule and cancel: POST /api/chat, the SMS webhook, the voice       *)
(* gather, POST /api/appointments/:id/cancel, POST /api/confirm-payment    *)
(***************************************************************************)
\* String.prototype.toLowerCase on the strings of the model
Lower(s) ==
    CASE s = "Jane" -> "jane"
      [] s = "JANE" -> "jane"
      [] s = "Bob" -> "bob"
      [] s = "Jane@X" -> "jane@x"
      [] OTHER -> s

\* What the Intent Resolver extracts: who (name, email, phone) ...
Identities ==
    { [name |-> "JANE", email |-> None, phone |-> None],
      [name |-> "Bob", email |-> None, phone |-> None],
      [name |-> "Zed", email |-> None, phone |-> None],
      [name |-> None, email |-> "Jane@X", phone |-> None],
      [name |-> "Zed", email |-> "Jane@X", phone |-> None],
      [name |-> "Zed", email |-> "zed@x", phone |-> "555"] }

\* ... and the new date (0: none), time and service
Changes ==
    { [date |-> 2, time |-> "10:00", service |-> None],
      [date |-> 3, time |-> "10:00", service |-> "Cut"],
      [date |-> 0, time |-> "10:00", service |-> None],
      [date |-> 2, time |-> None, service |-> None] }

\* the number an SMS or a call comes from
Callers == {"555", "000"}

\* (variant: the status filter left out)
ChatMatchesAnyStatus(a, e, from) ==
    \/ Lower(a.name) = Lower(e.name)
    \/ e.email # None /\ a.email # None /\ Lower(a.email) = Lower(e.email)
    \/ e.phone # None /\ a.phone = e.phone

\* routes.ts 439-444 and 477-482: the web chat's match
ChatMatches(a, e, from) ==
    /\ ~Terminal(a)
    /\ \/ Lower(a.name) = Lower(e.name)
       \/ e.email # None /\ a.email # None /\ Lower(a.email) = Lower(e.email)
       \/ e.phone # None /\ a.phone = e.phone

\* routes.ts 987-990: the SMS webhook's match for a reschedule
SmsRescheduleMatches(a, e, from) ==
    /\ ~Terminal(a)
    /\ (a.phone = from \/ Lower(a.name) = Lower(e.name))

\* routes.ts 1006-1009 (SMS cancel), 1228-1231 and 1247-1250 (voice)
CallerMatches(a, e, from) ==
    /\ ~Terminal(a)
    /\ a.phone = from

\* Array.prototype.find over a listing: the first of the rows that satisfy
\* the predicate (hits: their ids)
Find(all, hits) ==
    LET at == {i \in DOMAIN all : all[i] \in hits}
    IN  IF at = {} THEN None
        ELSE all[CHOOSE i \in at : \A j \in at : i <= j]

\* find over getAllAppointments()
FirstMatch(hits) == Find(getAllAppointments, hits)

\* The rows a turn's find accepts: the guards of routes.ts 436 and 474 (chat:
\* a name is required), 985 and 1004 (SMS: a name is required to reschedule),
\* 1226 and 1245 (voice: a caller number is required), and the predicates.
Candidates(kind, intent, e, from) ==
    CASE kind = "chat" ->
           IF e.name = None THEN {}
           ELSE {id \in AppIds : ChatMatches(appts[id], e, from)}
      [] kind = "sms" /\ intent = "reschedule" ->
           IF e.name = None THEN {}
           ELSE {id \in AppIds : SmsRescheduleMatches(appts[id], e, from)}
      [] kind = "voice" /\ from = None -> {}
      [] OTHER -> {id \in AppIds : CallerMatches(appts[id], e, from)}

\* The appointment a turn acts on
Lookup(kind, intent, e, from) == FirstMatch(Candidates(kind, intent, e, from))

\* Whether the appointment is a non-terminal appointment of the customer the
\* turn names: same name or same email whatever the case, or same phone (the
\* phone extracted from the text, or the number the SMS or call comes from).
SameCustomer(a, e, from) ==
    /\ ~Terminal(a)
    /\ \/ e.name # None /\ Lower(a.name) = Lower(e.name)
       \/ e.email # None /\ a.email # None /\ Lower(a.email) = Lower(e.email)
       \/ a.phone # None /\ a.phone \in {e.phone, from}

\* the answer of a handler whose try block threw / ran to its end
ErrorReply(kind) == IF kind \in {"sms", "voice"} THEN "twiml-error" ELSE "500"
NormalReply(kind) == IF kind \in {"sms", "voice"} THEN "twiml" ELSE "200"

\* every other running handler has now run beside a second one
Beside(p, mine) ==
    [q \in Procs |->
        IF q = p THEN mine
        ELSE IF InFlight(q) THEN [life[q] EXCEPT !.conc = TRUE] ELSE life[q]]

\* A turn up to its lookup: the conversation and message bookkeeping and the
\* Intent Resolver (none of which touches the appointments), then
\* getAllAppointments and find.  storeOk: no store call of it threw.
Turn(p, kind, intent, e, c, from, storeOk) ==
    LET found == IF storeOk THEN Lookup(kind, intent, e, from) ELSE None
        mine == [FreshLife EXCEPT
                   !.intent = intent,
                   !.looked = storeOk,
                   !.same = storeOk /\ \E id \in AppIds : SameCustomer(appts[id], e, from),
                   !.incomplete = storeOk /\ intent = "reschedule"
                                  /\ (c.date = 0 \/ c.time = None),
                   !.storeErr = ~storeOk,
                   !.conc = \E q \in Procs \ {p} : InFlight(q)]
        goes == found # None /\ (intent = "cancel" \/ (c.date # 0 /\ c.time # None))
    IN  /\ Free(p) /\ runs < MaxRuns
        /\ runs' = runs + 1
        /\ UNCHANGED <<appts, clock, delivered>>
        /\ att' = [att EXCEPT ![p] = FreshAtt]
        /\ swp' = [swp EXCEPT ![p] = FreshSweep]
        /\ IF goes
           THEN /\ proc' = [proc EXCEPT ![p] = FreshProc(kind, "write")]
                /\ life' = Beside(p, [mine EXCEPT !.target = found, !.snap = appts[found],
                                                  !.date = c.date, !.time = c.time,
                                                  !.service = c.service])
           ELSE /\ proc' = [proc EXCEPT ![p] =
                              [FreshProc(kind, "done") EXCEPT
                                 !.resp = IF storeOk THEN NormalReply(kind)
                                          ELSE ErrorReply(kind)]]
                /\ life' = Beside(p, mine)

\* what a turn that failed before its lookup had extracted plays no part
Unread == [name |-> None, email |-> None, phone |-> None]

\* a cancel carries no new date, time or service
NoChange == [date |-> 0, time |-> None, service |-> None]

ChangesFor(intent) == IF intent = "reschedule" THEN Changes ELSE {NoChange}

\* routes.ts 341-482
ChatTurn(p) ==
    \E intent \in {"reschedule", "cancel"} :
        \/ Turn(p, "chat", intent, Unread, NoChange, None, FALSE)
        \/ \E e \in Identities, c \in ChangesFor(intent) :
            Turn(p, "chat", intent, e, c, None, TRUE)

\* routes.ts 889-1011
SmsWebhook(p) ==
    \E intent \in {"reschedule", "cancel"}, from \in Callers :
        \/ Turn(p, "sms", intent, Unread, NoChange, from, FALSE)
        \/ \E e \in Identities, c \in ChangesFor(intent) :
            Turn(p, "sms", intent, e, c, from, TRUE)

\* routes.ts 1173-1252
VoiceGather(p) ==
    \E intent \in {"reschedule", "cancel"}, from \in Callers :
        \/ Turn(p, "voice", intent, Unread, NoChange, from, FALSE)
        \/ \E e \in Identities, c \in ChangesFor(intent) :
            Turn(p, "voice", intent, e, c, from, TRUE)

\* (variant: the row found by the lookup is stored back with the new date,
\* time and service)
RescheduledWholeRow(id, l) ==
    [appts EXCEPT ![id] = [l.snap EXCEPT
                             !.date = l.date, !.time = l.time,
                             !.service = IF l.service # None THEN l.service ELSE @,
                             !.ver = appts[id].ver + 1]]

\* (variant: the service is taken from the turn alone)
RescheduledNoFallback(id, l) ==
    [appts EXCEPT ![id].date = l.date, ![id].time = l.time,
                  ![id].service = l.service, ![id].ver = @ + 1]

\* routes.ts 447-451, 993-997, 1234-1238: updateAppointment(id, {date, time,
\* service: entities.service || customerAppointment.service})
Rescheduled(id, l) ==
    [appts EXCEPT ![id].date = l.date, ![id].time = l.time,
                  ![id].service = IF l.service # None THEN l.service ELSE l.snap.service,
                  ![id].ver = @ + 1]

\* routes.ts 485-487, 636-638, 1012-1014, 1253-1255
Cancelled(id) == [appts EXCEPT ![id].status = "cancelled", ![id].ver = @ + 1]

\* routes.ts 737-740
Paid(id) == [appts EXCEPT ![id].status = "confirmed", ![id].ver = @ + 1]

\* The write of a turn.  The web chat goes on to re-read; the SMS and voice
\* handlers answer (routes.ts 999, 1016, 1240, 1257: no notification).
TurnWrite(p) ==
    /\ proc[p].kind \in {"chat", "sms", "voice"} /\ proc[p].pc = "write"
    /\ UNCHANGED <<clock, att, swp, delivered, runs>>
    /\ \E storeOk \in BOOLEAN :
        LET id == life[p].target IN
        IF ~storeOk
        THEN /\ proc' = [proc EXCEPT ![p].pc = "done", ![p].resp = ErrorReply(proc[p].kind)]
             /\ life' = [life EXCEPT ![p].storeErr = TRUE]
             /\ UNCHANGED appts
        ELSE /\ appts' = IF life[p].intent = "reschedule"
                         THEN Rescheduled(id, life[p]) ELSE Cancelled(id)
             /\ life' = [life EXCEPT ![p].wrote = TRUE, ![p].wver = appts[id].ver + 1]
             /\ proc' = IF proc[p].kind = "chat"
                        THEN [proc EXCEPT ![p].pc = "reread"]
                        ELSE [proc EXCEPT ![p].pc = "done", ![p].resp = NormalReply(proc[p].kind)]

TwilioAnswers == {"unconfigured", "throws", "sent", "rejected"}

\* The helpers called without await and with a .catch (routes.ts 458-468,
\* 744-751; unnamed/part_004 5-37): each is called, none can throw into the
\* handler.
HelperDispatch(occ, row, chans, twilio, emailOk) ==
    [occ |-> occ, row |-> row, called |-> chans, threw |-> FALSE,
     failed |-> {ch \in chans :
                   \/ ch = "sms" /\ row.phone # None /\ twilio # "sent"
                   \/ ch = "email" /\ row.email # None /\ ~emailOk}]

\* routes.ts 493-517 and 640-661: the cancellation.  The Twilio client and
\* from-number are awaited in the handler itself; only messages.create has a
\* .catch.
CancelDispatch(row, chans, twilio, emailOk) ==
    IF row.phone # None /\ twilio = "throws"
    THEN [occ |-> "cancellation", row |-> row, called |-> {"sms"},
          failed |-> {"sms"}, threw |-> TRUE]
    ELSE [occ |-> "cancellation", row |-> row, threw |-> FALSE,
          called |-> (chans \ {"sms"}) \cup (IF row.phone # None THEN {"sms"} ELSE {}),
          failed |-> {ch \in chans :
                        \/ ch = "sms" /\ row.phone # None /\ twilio = "rejected"
                        \/ ch = "email" /\ row.email # None /\ ~emailOk}]

\* (variant: the copy found by the lookup is handed to the notifiers)
LookupRow(p) == life[p].snap

\* routes.ts 454 and 490: getAppointment after the write
RereadRow(p) == appts[life[p].target]

\* routes.ts 453-470 and 489-531: the web chat re-reads the appointment, calls
\* the notifiers with what it read, and answers.
ChatReread(p) ==
    /\ proc[p].kind = "chat" /\ proc[p].pc = "reread"
    /\ UNCHANGED <<appts, clock, att, swp, delivered, runs>>
    /\ \E storeOk \in BOOLEAN, twilio \in TwilioAnswers, emailOk \in BOOLEAN :
        IF ~storeOk
        THEN /\ proc' = [proc EXCEPT ![p].pc = "done", ![p].resp = "500"]
             /\ life' = [life EXCEPT ![p].storeErr = TRUE]
        ELSE LET all == {"sms", "email", "sync"}
                 d == IF life[p].intent = "reschedule"
                      THEN HelperDispatch("reschedule", RereadRow(p), all, twilio, emailOk)
                      ELSE CancelDispatch(RereadRow(p), all, twilio, emailOk)
             IN  /\ life' = [life EXCEPT ![p].sent = d]
                 /\ proc' = [proc EXCEPT ![p].pc = "done",
                                         ![p].resp = IF d.threw THEN "500" ELSE "200"]

\* routes.ts 625-634: POST /api/appointments/:id/cancel reads the appointment
ApiCancelGet(p) ==
    /\ Free(p) /\ runs < MaxRuns
    /\ runs' = runs + 1
    /\ UNCHANGED <<appts, clock, delivered>>
    /\ att' = [att EXCEPT ![p] = FreshAtt]
    /\ swp' = [swp EXCEPT ![p] = FreshSweep]
    /\ \E id \in AppIds \cup {MissingId}, storeOk \in BOOLEAN :
        LET mine == [FreshLife EXCEPT !.intent = "cancel", !.storeErr = ~storeOk,
                                      !.conc = \E q \in Procs \ {p} : InFlight(q)]
            reply(r) == [FreshProc("apiCancel", "done") EXCEPT !.resp = r]
        IN  IF ~storeOk
            THEN proc' = [proc EXCEPT ![p] = reply("500")] /\ life' = Beside(p, mine)
            ELSE IF id \notin AppIds
            THEN proc' = [proc EXCEPT ![p] = reply("404")] /\ life' = Beside(p, mine)
            ELSE IF appts[id].status = "cancelled"
            THEN proc' = [proc EXCEPT ![p] = reply("400")] /\ life' = Beside(p, mine)
            ELSE /\ proc' = [proc EXCEPT ![p] = FreshProc("apiCancel", "write")]
                 /\ life' = Beside(p, [mine EXCEPT !.target = id, !.snap = appts[id]])

\* routes.ts 636-667: the write, then the notifiers with the row it returned
ApiCancelWrite(p) ==
    /\ proc[p].kind = "apiCancel" /\ proc[p].pc = "write"
    /\ UNCHANGED <<clock, att, swp, delivered, runs>>
    /\ \E storeOk \in BOOLEAN, twilio \in TwilioAnswers, emailOk \in BOOLEAN :
        LET id == life[p].target IN
        IF ~storeOk
        THEN /\ proc' = [proc EXCEPT ![p].pc = "done", ![p].resp = "500"]
             /\ life' = [life EXCEPT ![p].storeErr = TRUE]
             /\ UNCHANGED appts
        ELSE LET d == CancelDispatch(Cancelled(id)[id], {"sms", "email"}, twilio, emailOk) IN
             /\ appts' = Cancelled(id)
             /\ life' = [life EXCEPT ![p].wrote = TRUE, ![p].wver = appts[id].ver + 1,
                                     ![p].sent = d]
             /\ proc' = [proc EXCEPT ![p].pc = "done",
                                     ![p].resp = IF d.threw THEN "500" ELSE "200"]

\* routes.ts 728-761: POST /api/confirm-payment
ConfirmPayment(p) ==
    /\ Free(p) /\ runs < MaxRuns
    /\ runs' = runs + 1
    /\ UNCHANGED <<clock, delivered>>
    /\ att' = [att EXCEPT ![p] = FreshAtt]
    /\ swp' = [swp EXCEPT ![p] = FreshSweep]
    /\ LET mine == [FreshLife EXCEPT !.intent = "payment",
                                      !.conc = \E q \in Procs \ {p} : InFlight(q)]
           reply(r) == [FreshProc("payment", "done") EXCEPT !.resp = r]
       IN  \/ \* no appointmentId in the body
              /\ proc' = [proc EXCEPT ![p] = reply("400")]
              /\ life' = Beside(p, mine)
              /\ UNCHANGED appts
           \/ \* updateAppointment threw
              /\ proc' = [proc EXCEPT ![p] = reply("500")]
              /\ life' = Beside(p, [mine EXCEPT !.storeErr = TRUE])
              /\ UNCHANGED appts
           \/ \* no such appointment: res.json(undefined)
              /\ proc' = [proc EXCEPT ![p] = reply("200")]
              /\ life' = Beside(p, mine)
              /\ UNCHANGED appts
           \/ \E id \in AppIds, twilio \in TwilioAnswers :
              /\ appts' = Paid(id)
              /\ proc' = [proc EXCEPT ![p] = reply("200")]
              /\ life' = Beside(p, [mine EXCEPT
                           !.target = id, !.snap = appts[id], !.wrote = TRUE,
                           !.wver = appts[id].ver + 1,
                           !.sent = HelperDispatch("confirmation", Paid(id)[id],
                                                   {"sms", "sync"}, twilio, TRUE)])

(***************************************************************************)
(* PUT /api/appointments/:id                                               *)
(***************************************************************************)
\* the validated body of an update: any part of an appointment ("none", 0:
\* field absent)
Patches ==
    { [status |-> "cancelled", date |-> 0],
      [status |-> "completed", date |-> 0],
      [status |-> "confirmed", date |-> 0],
      [status |-> None, date |-> 2] }

\* routes.ts 599: updateAppointment(id, validatedData)
Updated(id, patch) ==
    [appts EXCEPT ![id].status = IF patch.status # None THEN patch.status ELSE @,
                  ![id].date = IF patch.date # 0 THEN patch.date ELSE @,
                  ![id].ver = @ + 1]

\* routes.ts 588-597: the read, then the validation of the body
ApiUpdateGet(p) ==
    /\ Free(p) /\ runs < MaxRuns
    /\ runs' = runs + 1
    /\ UNCHANGED <<appts, clock, delivered>>
    /\ att' = [att EXCEPT ![p] = FreshAtt]
    /\ swp' = [swp EXCEPT ![p] = FreshSweep]
    /\ \E id \in AppIds \cup {MissingId}, storeOk \in BOOLEAN, valid \in BOOLEAN :
        LET mine == [FreshLife EXCEPT !.intent = "update", !.storeErr = ~storeOk,
                                      !.conc = \E q \in Procs \ {p} : InFlight(q)]
            reply(r) == [FreshProc("apiUpdate", "done") EXCEPT !.resp = r]
        IN  IF ~storeOk
            THEN proc' = [proc EXCEPT ![p] = reply("400")] /\ life' = Beside(p, mine)
            ELSE IF id \notin AppIds
            THEN proc' = [proc EXCEPT ![p] = reply("404")] /\ life' = Beside(p, mine)
            ELSE IF ~valid
            THEN proc' = [proc EXCEPT ![p] = reply("400")] /\ life' = Beside(p, mine)
            ELSE /\ proc' = [proc EXCEPT ![p] = FreshProc("apiUpdate", "write")]
                 /\ life' = Beside(p, [mine EXCEPT !.target = id, !.snap = appts[id]])

\* routes.ts 599-617: the write, then the confirmation helpers with the row
\* it returned
ApiUpdateWrite(p) ==
    /\ proc[p].kind = "apiUpdate" /\ proc[p].pc = "write"
    /\ UNCHANGED <<clock, att, swp, delivered, runs>>
    /\ \E patch \in Patches, storeOk \in BOOLEAN, twilio \in TwilioAnswers,
          emailOk \in BOOLEAN :
        LET id == life[p].target IN
        IF ~storeOk
        THEN /\ proc' = [proc EXCEPT ![p].pc = "done", ![p].resp = "400"]
             /\ life' = [life EXCEPT ![p].storeErr = TRUE]
             /\ UNCHANGED appts
        ELSE /\ appts' = Updated(id, patch)
             /\ life' = [life EXCEPT
                           ![p].wrote = TRUE, ![p].wver = appts[id].ver + 1,
                           ![p].sent = HelperDispatch("confirmation", Updated(id, patch)[id],
                                                      {"sms", "email", "sync"},
                                                      twilio, emailOk)]
             /\ proc' = [proc EXCEPT ![p].pc = "done", ![p].resp = "200"]

\* the channels of a dispatch on which a message went out to the customer
Reached(d) ==
    {ch \in d.called \ d.failed :
        \/ ch = "sms" /\ d.row.phone # None
        \/ ch = "email" /\ d.row.email # None}

\* the dispatch a handler made in this step, counted when it reached the
\* customer on some channel
Logged(p) ==
    LET d == life'[p].sent IN
    dispatched' = IF d.occ # None /\ ~d.threw /\ Reached(d) # {}
                  THEN [dispatched EXCEPT ![life'[p].target][d.occ] = @ + 1]
                  ELSE dispatched

(***************************************************************************)
(* Booking: POST /api/chat, the SMS webhook, the voice gather              *)
(***************************************************************************)
\* amountCents of a booked appointment
DefaultAmountCents == 5000

\* the conversations of the web chat, and one per texting number
WebConvs == {"web1", "web2"}

ConvIds == WebConvs \cup Callers

\* what the Intent Resolver extracts for a booking (0, "none": absent)
Requests ==
    { [name |-> "Ann", service |-> "Cut", date |-> 2, time |-> "10:00",
       email |-> "ann@x", phone |-> None],
      [name |-> "Ann", service |-> "Cut", date |-> 2, time |-> "10:00",
       email |-> None, phone |-> "557"],
      [name |-> "Ann", service |-> None, date |-> 2, time |-> "10:00",
       email |-> None, phone |-> None],
      [name |-> None, service |-> "Cut", date |-> 2, time |-> "10:00",
       email |-> "ann@x", phone |-> None],
      [name |-> "Ann", service |-> "Cut", date |-> 0, time |-> None,
       email |-> None, phone |-> None] }

\* routes.ts 409-415, 962-968, 1204-1210: the booking guard
CanBook(e) == e.name # None /\ e.service # None /\ e.date # 0 /\ e.time # None

\* the conversation a turn belongs to: the web chat's is the one of the
\* conversationId sent, or a new one (routes.ts 347-360); the texter's is
\* the one with customerPhone = From (911-922); the voice gather keeps none
ConversationOf(kind, web, from) ==
    CASE kind = "chat" -> web [] kind = "sms" -> from [] OTHER -> None

\* The row createAppointment is given: routes.ts 416-428, 969-981, 1211-1222
NewAppointment(op, kind, e, from, c) ==
    [op |-> op, name |-> e.name, email |-> e.email,
     phone |-> IF kind = "chat" THEN e.phone ELSE from,
     service |-> e.service, date |-> e.date, time |-> e.time,
     status |-> "pending", amountCents |-> DefaultAmountCents,
     conversationId |-> c]

\* A turn up to its createAppointment: the conversation is found or
\* created, the Intent Resolver asked, and the conversation updated with
\* what it extracted; the web chat also stores status escalated when the
\* resolver requires escalation (routes.ts 399-403), the SMS webhook does
\* not (943-956).  early: a store call or the resolver threw before the
\* booking block.
BookingTurn(p) ==
    /\ Free(p) /\ runs < MaxRuns
    /\ runs' = runs + 1
    /\ UNCHANGED <<appts, clock, delivered, probe, made, dispatched, sched>>
    /\ att' = [att EXCEPT ![p] = FreshAtt]
    /\ swp' = [swp EXCEPT ![p] = FreshSweep]
    /\ \E kind \in {"chat", "sms", "voice"}, from \in Callers, web \in WebConvs,
          early \in BOOLEAN, requiresEscalation \in BOOLEAN :
        LET c == ConversationOf(kind, web, from)
            mine == [FreshLife EXCEPT !.intent = "booking", !.op = runs + 1,
                                      !.storeErr = early, !.cid = c,
                                      !.esc = requiresEscalation,
                                      !.conc = \E q \in Procs \ {p} : InFlight(q)]
        IN  IF early
            THEN /\ UNCHANGED conv
                 /\ proc' = [proc EXCEPT ![p] =
                               [FreshProc(kind, "done") EXCEPT !.resp = ErrorReply(kind)]]
                 /\ life' = Beside(p, mine)
            ELSE /\ conv' = IF c = None THEN conv
                            ELSE IF kind = "chat" /\ requiresEscalation
                            THEN [conv EXCEPT ![c] = "escalated"]
                            ELSE IF conv[c] = None
                            THEN [conv EXCEPT ![c] = "active"] ELSE conv
                 /\ \E e \in Requests :
                     IF CanBook(e)
                     THEN /\ proc' = [proc EXCEPT ![p] = FreshProc(kind, "create")]
                          /\ life' = Beside(p, [mine EXCEPT
                                       !.snap = NewAppointment(runs + 1, kind, e, from, c)])
                     ELSE /\ proc' = [proc EXCEPT ![p] =
                                        [FreshProc(kind, "done") EXCEPT
                                           !.resp = NormalReply(kind)]]
                          /\ life' = Beside(p, [mine EXCEPT !.incomplete = TRUE])

\* routes.ts 416-428, 969-981, 1211-1222: await storage.createAppointment.
\* The SMS and voice handlers then answer; the web chat goes on to its
\* conversation.  No handler calls a notifier.
BookingCreate(p) ==
    /\ life[p].intent = "booking" /\ proc[p].pc = "create"
    /\ UNCHANGED <<appts, clock, att, swp, delivered, runs, probe, conv, dispatched, sched>>
    /\ \E storeOk \in BOOLEAN :
        IF ~storeOk
        THEN /\ UNCHANGED made
             /\ life' = [life EXCEPT ![p].storeErr = TRUE]
             /\ proc' = [proc EXCEPT ![p].pc = "done",
                                     ![p].resp = ErrorReply(proc[p].kind)]
        ELSE /\ made' = Append(made, life[p].snap)
             /\ life' = [life EXCEPT ![p].wrote = TRUE]
             /\ proc' = IF proc[p].kind = "chat"
                        THEN [proc EXCEPT ![p].pc = "complete"]
                        ELSE [proc EXCEPT ![p].pc = "done",
                                          ![p].resp = NormalReply(proc[p].kind)]

\* routes.ts 430-432 and 521-532: the web chat sets its conversation
\* completed, then answers
BookingComplete(p) ==
    /\ life[p].intent = "booking" /\ proc[p].pc = "complete"
    /\ UNCHANGED <<appts, clock, att, swp, delivered, runs, probe, made, dispatched, sched>>
    /\ \E storeOk \in BOOLEAN :
        IF ~storeOk
        THEN /\ UNCHANGED conv
             /\ life' = [life EXCEPT ![p].storeErr = TRUE]
             /\ proc' = [proc EXCEPT ![p].pc = "done", ![p].resp = "500"]
        ELSE /\ conv' = [conv EXCEPT ![life[p].cid] = "completed"]
             /\ UNCHANGED life
             /\ proc' = [proc EXCEPT ![p].pc = "done", ![p].resp = "200"]

(***************************************************************************)
(* Initial states: a store holding two appointments booked earlier.        *)
(***************************************************************************)
Appointment(name, email, phone, date, status, created) ==
    [name |-> name, email |-> email, phone |-> phone, service |-> "Consult",
     date |-> date, time |-> "09:00", status |-> status, created |-> created,
     lastRem |-> <<>>, ver |-> 0]

\* the occasions of a lifecycle notification
Occasions == {"confirmation", "reschedule", "cancellation"}

\* no lookup made on its own yet
NoProbe == [kind |-> None]

InitProcs ==
    /\ clock = 0
    /\ runs = 0
    /\ proc = [p \in Procs |-> FreshProc("idle", "idle")]
    /\ att = [p \in Procs |-> FreshAtt]
    /\ swp = [p \in Procs |-> FreshSweep]
    /\ delivered = [id \in AppIds |-> [last |-> <<>>, twice |-> FALSE]]
    /\ life = [p \in Procs |-> FreshLife]
    /\ probe = NoProbe
    /\ made = <<>>
    /\ conv = [c \in ConvIds |-> None]
    /\ dispatched = [id \in AppIds |-> [occ \in Occasions |-> 0]]
    /\ sched = [timer |-> "off", failed |-> 0]

InitReminder ==
    /\ InitProcs
    /\ \E k2 \in {"due", "unreachable", "later", "cancelled"} :
        appts = [id \in AppIds |->
                   IF id = "a1"
                   THEN Appointment("Jane", "jane@x", "555", 1, "confirmed", 1)
                   ELSE Appointment("Bob",
                                    IF k2 = "unreachable" THEN None ELSE "bob@x",
                                    IF k2 = "unreachable" THEN None ELSE "556",
                                    IF k2 = "later" THEN 2 ELSE 1,
                                    IF k2 = "cancelled" THEN "cancelled" ELSE "pending", 2)]

NextReminder ==
    \/ Tick /\ UNCHANGED <<probe, made, conv, dispatched, sched>>
    \/ \E p \in Procs : ManualStart(p) /\ UNCHANGED <<probe, made, conv, dispatched, sched>>
    \/ \E p \in Procs : SweepStart(p) /\ UNCHANGED <<probe, made, conv, dispatched, sched>>
    \/ \E p \in Procs : ReminderGet(p) /\ UNCHANGED <<probe, made, conv, dispatched, sched>>
    \/ \E p \in Procs : ReminderClaim(p) /\ UNCHANGED <<probe, made, conv, dispatched, sched>>
    \/ \E p \in Procs : ReminderDeliver(p) /\ UNCHANGED <<probe, made, conv, dispatched, sched>>

\* the reminder path alone: triggers, sweeps and the clock
SpecReminder == InitReminder /\ [][NextReminder]_vars

InitLifecycle ==
    /\ InitProcs
    /\ \E k2 \in {"bob", "jane", "cancelled"} :
        appts = [id \in AppIds |->
                   IF id = "a1"
                   THEN Appointment("Jane", "jane@x", "555", 1, "pending", 1)
                   ELSE CASE k2 = "bob" ->
                               Appointment("Bob", "bob@x", None, 1, "pending", 2)
                          [] k2 = "jane" ->
                               Appointment("Jane", None, "555", 1, "confirmed", 2)
                          [] OTHER ->
                               Appointment("Bob", "bob@x", "556", 1, "cancelled", 2)]

NextLifecycle ==
    \/ \E p \in Procs : ChatTurn(p) /\ UNCHANGED <<probe, made, conv, dispatched, sched>>
    \/ \E p \in Procs : SmsWebhook(p) /\ UNCHANGED <<probe, made, conv, dispatched, sched>>
    \/ \E p \in Procs : VoiceGather(p) /\ UNCHANGED <<probe, made, conv, dispatched, sched>>
    \/ \E p \in Procs : TurnWrite(p) /\ UNCHANGED <<probe, made, conv, dispatched, sched>>
    \/ \E p \in Procs : ChatReread(p) /\ UNCHANGED <<probe, made, conv, dispatched, sched>>
    \/ \E p \in Procs : ApiCancelGet(p) /\ UNCHANGED <<probe, made, conv, dispatched, sched>>
    \/ \E p \in Procs : ApiCancelWrite(p) /\ UNCHANGED <<probe, made, conv, dispatched, sched>>
    \/ \E p \in Procs : ConfirmPayment(p) /\ UNCHANGED <<probe, made, conv, dispatched, sched>>

\* the inbound handlers alone
SpecLifecycle == InitLifecycle /\ [][NextLifecycle]_vars

NextBooking ==
    \/ \E p \in Procs : BookingTurn(p)
    \/ \E p \in Procs : BookingCreate(p)
    \/ \E p \in Procs : BookingComplete(p)

\* the bookings alone
SpecBooking == InitLifecycle /\ [][NextBooking]_vars

NextApi ==
    \/ \E p \in Procs : ApiUpdateGet(p) /\ UNCHANGED <<probe, made, conv, dispatched, sched>>
    \/ \E p \in Procs : ApiUpdateWrite(p) /\ Logged(p) /\ UNCHANGED <<probe, made, conv, sched>>
    \/ \E p \in Procs : ApiCancelGet(p) /\ UNCHANGED <<probe, made, conv, dispatched, sched>>
    \/ \E p \in Procs : ApiCancelWrite(p) /\ Logged(p) /\ UNCHANGED <<probe, made, conv, sched>>
    \/ \E p \in Procs : ConfirmPayment(p) /\ Logged(p) /\ UNCHANGED <<probe, made, conv, sched>>

\* the direct API alone, every dispatch counted
SpecApi == InitLifecycle /\ [][NextApi]_vars

NextSweeps ==
    \/ Tick /\ UNCHANGED <<probe, made, conv, dispatched, sched>>
    \/ \E p \in Procs : SweepStart(p) /\ UNCHANGED <<probe, made, conv, dispatched, sched>>
    \/ \E p \in Procs : ReminderGet(p) /\ UNCHANGED <<probe, made, conv, dispatched, sched>>
    \/ \E p \in Procs : ReminderClaim(p) /\ UNCHANGED <<probe, made, conv, dispatched, sched>>
    \/ \E p \in Procs : ReminderDeliver(p) /\ UNCHANGED <<probe, made, conv, dispatched, sched>>
    \/ \E p \in Procs : ApiUpdateGet(p) /\ UNCHANGED <<probe, made, conv, dispatched, sched>>
    \/ \E p \in Procs : ApiUpdateWrite(p) /\ UNCHANGED <<probe, made, conv, dispatched, sched>>
    \/ \E p \in Procs : ApiCancelGet(p) /\ UNCHANGED <<probe, made, conv, dispatched, sched>>
    \/ \E p \in Procs : ApiCancelWrite(p) /\ UNCHANGED <<probe, made, conv, dispatched, sched>>

\* the periodic sweep beside the updates and cancels of the direct API
SpecSweeps == InitReminder /\ [][NextSweeps]_vars

\* The notifiers that act on a dispatch: the email helpers return at once
\* without customerEmail (email-notifications.ts 5-7, 36-37, 65-66), the SMS
\* helpers without customerPhone (unnamed/part_004 7-10), and
\* syncAppointmentCustomer without customerEmail (mailchimp-sync.ts 77-80) or
\* with the sync disabled (18-21).
Invoked(d, syncEnabled) ==
    {ch \in d.called :
        \/ ch = "email" /\ d.row.email # None
        \/ ch = "sms" /\ d.row.phone # None
        \/ ch = "sync" /\ d.row.email # None /\ syncEnabled}

\* A dispatch made on its own, for an appointment with any contact fields
DispatchProbe ==
    /\ UNCHANGED <<appts, clock, proc, att, swp, delivered, life, runs, made, conv,
                   dispatched, sched>>
    /\ \E id \in AppIds, email \in {None, "jane@x"}, phone \in {None, "555"},
          occ \in Occasions, syncEnabled \in BOOLEAN,
          twilio \in TwilioAnswers, emailOk \in BOOLEAN :
        LET row == [appts[id] EXCEPT !.email = email, !.phone = phone]
            all == {"sms", "email", "sync"}
            d == IF occ = "cancellation"
                 THEN CancelDispatch(row, all, twilio, emailOk)
                 ELSE HelperDispatch(occ, row, all, twilio, emailOk)
        IN  probe' = [kind |-> "dispatch", sync |-> syncEnabled, d |-> d,
                      invoked |-> Invoked(d, syncEnabled)]

NextDispatch ==
    \/ DispatchProbe
    \/ \E p \in Procs : ConfirmPayment(p) /\ UNCHANGED <<probe, made, conv, dispatched, sched>>

\* the dispatches alone
SpecDispatch == InitLifecycle /\ [][NextDispatch]_vars

\* a step of the invocation running in slot p: the event loop runs every
\* continuation whose awaited call has answered
ReminderStep(p) ==
    /\ ReminderGet(p) \/ ReminderClaim(p) \/ ReminderDeliver(p)
    /\ UNCHANGED <<probe, made, conv, dispatched, sched>>

NextHang ==
    \/ \E p \in Procs : SweepStart(p) /\ UNCHANGED <<probe, made, conv, dispatched, sched>>
    \/ \E p \in Procs : ReminderStep(p)
    \/ \E p \in Procs : ReminderHang(p) /\ UNCHANGED <<probe, made, conv, dispatched, sched>>

\* the sweeps with notifiers that may never answer; every call that answers
\* is followed by the continuation awaiting it
SpecHang ==
    /\ InitReminder /\ [][NextHang]_vars
    /\ \A p \in Procs : WF_vars(ReminderStep(p))

(***************************************************************************)
(* startReminderScheduler                                                  *)
(***************************************************************************)
\* the sweeps the scheduler has to have started by now: one at its start and
\* one per period elapsed since
Owed == 1 + clock \div PeriodHours

\* the listing of the sweep started in slot p threw (the sweep ended at once
\* although an appointment was due)
ListingFailed(p) ==
    /\ proc'[p].pc = "done"
    /\ \E id \in AppIds : IsUpcoming(appts[id], clock)

\* (variant: the rejection of a sweep is not caught and ends the process)
AfterListingFailureUncaught(s) == [s EXCEPT !.timer = "dead", !.failed = @ + 1]

\* storage.ts 310-312 and 318-320, 325-327: the sweep catches the error of
\* its listing and logs it, and the scheduler has a .catch on every sweep;
\* the timer is left as it is
AfterListingFailure(s) == [s EXCEPT !.failed = @ + 1]

\* a sweep started by the scheduler
Launch(p) ==
    /\ SweepStart(p)
    /\ sched' = IF ListingFailed(p) THEN AfterListingFailure(sched) ELSE sched
    /\ UNCHANGED <<probe, made, conv, dispatched>>

\* storage.ts 316-321: the scheduler starts with a sweep and arms the timer
SchedulerStart ==
    /\ sched.timer = "off"
    /\ \E p \in Procs :
        /\ SweepStart(p)
        /\ sched' = IF ListingFailed(p)
                    THEN [AfterListingFailure(sched) EXCEPT
                            !.timer = IF @ = "off" THEN "on" ELSE @]
                    ELSE [sched EXCEPT !.timer = "on"]
        /\ UNCHANGED <<probe, made, conv, dispatched>>

\* a period goes by (the time of the model ends with the last sweep it can
\* hold)
PeriodTick ==
    /\ sched.timer # "off" /\ runs = Owed /\ runs < MaxRuns
    /\ clock' = clock + PeriodHours
    /\ UNCHANGED <<appts, proc, att, swp, delivered, life, runs, probe, made, conv,
                   dispatched, sched>>

\* storage.ts 324-328: the callback of setInterval
IntervalSweep ==
    /\ sched.timer = "on" /\ runs < Owed
    /\ \E p \in Procs : Launch(p)

NextScheduler ==
    \/ SchedulerStart
    \/ PeriodTick
    \/ IntervalSweep
    \/ \E p \in Procs : ReminderStep(p)

\* the scheduler and its sweeps; the event loop runs every callback that is
\* due and every continuation whose awaited call has answered
SpecScheduler ==
    /\ InitReminder /\ [][NextScheduler]_vars
    /\ WF_vars(SchedulerStart) /\ WF_vars(IntervalSweep)
    /\ \A p \in Procs : WF_vars(ReminderStep(p))

NextMixed ==
    \/ \E p \in Procs : ChatTurn(p) /\ UNCHANGED <<probe, made, conv, dispatched, sched>>
    \/ \E p \in Procs : TurnWrite(p) /\ UNCHANGED <<probe, made, conv, dispatched, sched>>
    \/ \E p \in Procs : ChatReread(p) /\ UNCHANGED <<probe, made, conv, dispatched, sched>>
    \/ \E p \in Procs : SweepStart(p) /\ UNCHANGED <<probe, made, conv, dispatched, sched>>
    \/ \E p \in Procs : ReminderStep(p)

\* the web chat beside the sweep
SpecMixed == InitLifecycle /\ [][NextMixed]_vars

(***************************************************************************)
(* A cancel delivered twice (a retried webhook, a message sent again)      *)
(***************************************************************************)
\* the status of every stored appointment
Statuses == [id \in AppIds |-> appts[id].status]

\* What is remembered of the two deliveries: the channel and what the Intent
\* Resolver extracted, and once the first has answered, whether it reported
\* an error and the stored statuses it left.
Delivered(pr, p) ==
    IF proc'[p].pc # "done" THEN pr
    ELSE IF pr.kind = "first"
    THEN [pr EXCEPT !.kind = "answered", !.after = Statuses',
                    !.ok = ~life'[p].storeErr /\ proc'[p].resp \notin {"500", "twiml-error"}]
    ELSE [pr EXCEPT !.kind = "retried"]

\* the first delivery of a cancel
CancelTurn(p) ==
    /\ probe = NoProbe
    /\ \E kind \in {"chat", "sms", "voice"}, e \in Identities, from \in Callers :
        /\ Turn(p, kind, "cancel", e, NoChange, from, TRUE)
        /\ probe' = Delivered([kind |-> "first", ch |-> kind, e |-> e, from |-> from,
                               after |-> Statuses, ok |-> FALSE], p)
    /\ UNCHANGED <<made, conv, dispatched, sched>>

\* the same cancel delivered again, after the first was answered
CancelRetry(p) ==
    /\ probe.kind = "answered"
    /\ Turn(p, probe.ch, "cancel", probe.e, NoChange, probe.from, TRUE)
    /\ probe' = Delivered([probe EXCEPT !.kind = "second"], p)
    /\ UNCHANGED <<made, conv, dispatched, sched>>

\* the write and the re-read of either delivery
CancelStep(p) ==
    /\ probe.kind \in {"first", "second"}
    /\ TurnWrite(p) \/ ChatReread(p)
    /\ probe' = Delivered(probe, p)
    /\ UNCHANGED <<made, conv, dispatched, sched>>

NextRetry ==
    \/ \E p \in Procs : CancelTurn(p)
    \/ \E p \in Procs : CancelRetry(p)
    \/ \E p \in Procs : CancelStep(p)

\* one cancel, delivered twice in a row
SpecRetry == InitLifecycle /\ [][NextRetry]_vars

\* The lookup of a reschedule or cancel turn, made on its own against the
\* stored appointments: getAllAppointments of either store, then find.
LookupProbe ==
    /\ UNCHANGED <<appts, clock, proc, att, swp, delivered, life, runs, made, conv,
                   dispatched, sched>>
    /\ \E kind \in {"chat", "sms", "voice"}, intent \in {"reschedule", "cancel"},
          e \in Identities, caller \in Callers,
          storage \in {"MemStorage", "DatabaseStorage"} :
        LET from == IF kind = "chat" THEN None ELSE caller IN
        probe' = [kind |-> kind, intent |-> intent, e |-> e, from |-> from,
                  storage |-> storage,
                  hits |-> Candidates(kind, intent, e, from),
                  found |-> Find(Listing(storage), Candidates(kind, intent, e, from))]

\* payment confirmations change the statuses the lookup meets
NextLookup ==
    \/ LookupProbe
    \/ \E p \in Procs : ConfirmPayment(p) /\ UNCHANGED <<probe, made, conv, dispatched, sched>>

\* the lookups alone
SpecLookup == InitLifecycle /\ [][NextLookup]_vars

(***************************************************************************)
(* Properties of the reminder path.                                        *)
(***************************************************************************)
\* Every invocation of sendAppointmentReminder a slot holds: the running or
\* last one, and those a sweep has logged.
AttemptsOf(p) == {att[p]} \cup {swp[p].log[i] : i \in DOMAIN swp[p].log}

\* C1: an invocation (manual or from a sweep) that reads an appointment whose
\* lastReminderSentAt is set and less than 12 hours old attempts no delivery
\* on any channel, does not write the stamp, and ends without error.
C1_CooldownIsANoOp ==
    \A p \in Procs : \A a \in AttemptsOf(p) :
        a.cool => /\ a.attempts = {}
                  /\ ~a.claimed
                  /\ a.out = "ok"
                  /\ proc[p].kind = "manual" => proc[p].resp = "200"

C1_Witness ==
    \E p \in Procs : \E a \in AttemptsOf(p) :
        a.cool /\ a.out = "ok" /\ appts[a.target].lastRem # <<>>

\* C2: within one invocation no channel is attempted before the stamp
\* lastReminderSentAt has been written to the store by that invocation.
C2_ClaimBeforeDelivery ==
    \A p \in Procs : \A a \in AttemptsOf(p) :
        a.attempts # {} => a.claimed /\ appts[a.target].lastRem # <<>>

C2_Witness ==
    \E p \in Procs : \E a \in AttemptsOf(p) :
        a.attempts = {"email", "sms"} /\ a.claimed

\* C3: no two invocations for the same appointment (sweeps or manual
\* triggers, interleaved in any way) both attempt delivery with claims less
\* than 12 hours apart.
C3_NoDoubleSend == \A id \in AppIds : ~delivered[id].twice

\* C4: in a sweep a failing appointment does not keep the appointments
\* listed after it from getting their own invocation: the sweep is always
\* at the appointment that follows the logged ones, and ends only when
\* every listed appointment has been through.
C4_SweepIsolation ==
    \A p \in Procs :
        proc[p].kind = "sweep" =>
            /\ \A i \in DOMAIN swp[p].log :
                  swp[p].log[i].target = swp[p].listed[i] /\ swp[p].log[i].out # "none"
            /\ proc[p].pc = "done" => Len(swp[p].log) = Len(swp[p].listed)
            /\ proc[p].pc # "done" =>
                  /\ Len(swp[p].log) < Len(swp[p].listed)
                  /\ att[p].target = swp[p].listed[Len(swp[p].log) + 1]

C4_Witness ==
    \E p \in Procs :
        /\ proc[p].kind = "sweep" /\ proc[p].pc = "done"
        /\ Len(swp[p].log) = 2
        /\ swp[p].log[1].out = "error"
        /\ swp[p].log[2].claimed /\ swp[p].log[2].attempts # {}

\* C5: a manual trigger whose attempted channels all failed ends with an
\* error, and POST /api/reminders/send answers 500.
C5_ManualFailureIsReported ==
    \A p \in Procs :
        (/\ proc[p].kind = "manual" /\ proc[p].pc = "done"
         /\ att[p].attempts # {} /\ att[p].failed = att[p].attempts)
        => att[p].out = "error" /\ proc[p].resp = "500"

C5_Witness ==
    \E p \in Procs :
        /\ proc[p].kind = "manual" /\ proc[p].pc = "done"
        /\ att[p].attempts = {"email", "sms"} /\ att[p].failed = att[p].attempts
        /\ proc[p].resp = "500"

(***************************************************************************)
(* Properties of the reschedule and cancel paths.                          *)
(***************************************************************************)
Turns == {"chat", "sms", "voice"}

Lifecycle == {"confirmation", "reschedule", "cancellation"}

\* the turn named a customer with no non-terminal appointment, or asked for a
\* reschedule without a new date or a new time
NothingToDo(p) ==
    /\ proc[p].kind \in Turns
    /\ life[p].looked
    /\ (~life[p].same \/ life[p].incomplete)

\* C6: on the web chat, the SMS webhook and the voice gather, a reschedule or
\* cancel turn whose customer matches no non-terminal appointment, and a
\* reschedule turn without a new date or a new time, ends at once with the
\* channel's normal answer, writes no appointment and calls no notifier.
C6_NoMatchIsASilentNoOp ==
    \A p \in Procs :
        NothingToDo(p) =>
            /\ proc[p].pc = "done"
            /\ proc[p].resp = NormalReply(proc[p].kind)
            /\ ~life[p].wrote
            /\ life[p].target = None
            /\ life[p].sent = NoDispatch

\* an SMS cancel from an unknown number has been answered while a chat
\* reschedule of a known customer waits to write: the store is as it was booked
C6_Witness ==
    \E p, q \in Procs :
        /\ NothingToDo(p) /\ proc[p].kind = "sms" /\ life[p].intent = "cancel"
        /\ ~life[p].same /\ life[p].conc
        /\ proc[p].pc = "done" /\ proc[p].resp = "twiml"
        /\ proc[q].kind = "chat" /\ proc[q].pc = "write"
        /\ \A id \in AppIds : ~Terminal(appts[id]) /\ appts[id].ver = 0

\* the slot's reschedule was written, nothing wrote the appointment between its
\* lookup and its write, and nothing has written it since
RescheduledAlone(p) ==
    /\ proc[p].kind \in Turns
    /\ life[p].intent = "reschedule" /\ life[p].wrote
    /\ life[p].wver = life[p].snap.ver + 1
    /\ appts[life[p].target].ver = life[p].wver

\* C7: after a reschedule to D', T' the stored appointment reads D', T' and
\* the new service if the turn gave one, the service it had before otherwise;
\* the row handed to the notifiers is never older than the write, and carries
\* D', T' when nothing wrote the appointment in between.
C7_RescheduleRoundTrip ==
    \A p \in Procs :
        /\ RescheduledAlone(p) =>
            LET a == appts[life[p].target] IN
            /\ a.date = life[p].date /\ a.time = life[p].time
            /\ a.service = IF life[p].service # None THEN life[p].service
                           ELSE life[p].snap.service
            /\ a.service # None
        /\ life[p].sent.occ = "reschedule" =>
            /\ life[p].sent.row.ver >= life[p].wver
            /\ life[p].sent.row.ver = life[p].wver =>
                /\ life[p].sent.row.date = life[p].date
                /\ life[p].sent.row.time = life[p].time

\* a chat reschedule without a service, notified with the new date and time
C7_Witness ==
    \E p \in Procs :
        /\ RescheduledAlone(p) /\ proc[p].kind = "chat" /\ proc[p].pc = "done"
        /\ life[p].service = None
        /\ appts[life[p].target].service = "Consult"
        /\ appts[life[p].target].date = 2 /\ life[p].snap.date = 1
        /\ life[p].sent.occ = "reschedule"
        /\ life[p].sent.row.date = 2 /\ life[p].sent.row.time = "10:00"
        /\ "sms" \in life[p].sent.failed

\* the channels of a dispatch that apply to the row it was given
Applicable(d, chans) ==
    {ch \in chans : \/ ch = "email" /\ d.row.email # None
                    \/ ch = "sms" /\ d.row.phone # None
                    \/ ch = "sync" /\ d.row.email # None}

\* C8: in a reschedule or cancellation dispatch every applicable channel
\* (email and directory sync with an email address, SMS with a phone number)
\* is attempted, whatever happened on the others.
C8_EveryApplicableChannelAttempted ==
    \A p \in Procs :
        /\ proc[p].kind = "chat" /\ life[p].sent.occ \in Lifecycle =>
            Applicable(life[p].sent, {"sms", "email", "sync"}) \subseteq life[p].sent.called
        /\ proc[p].kind = "apiCancel" /\ life[p].sent.occ \in Lifecycle =>
            Applicable(life[p].sent, {"sms", "email"}) \subseteq life[p].sent.called

\* C9: once its store write has succeeded (and no store call failed), a chat
\* turn, an API cancel and a payment confirmation end with the normal answer,
\* whatever the notifiers did.
C9_NotifierFailureNeverPropagates ==
    \A p \in Procs :
        /\ proc[p].kind \in {"chat", "apiCancel", "payment"}
        /\ proc[p].pc = "done" /\ life[p].wrote /\ ~life[p].storeErr
        => proc[p].resp = "200"

\* the fields a notification renders
Rendered(a) == <<a.service, a.date, a.time, a.status>>

\* both slots wrote the same appointment, side by side, and are done
BothWrote(p, q) ==
    /\ p # q
    /\ life[p].wrote /\ life[q].wrote
    /\ life[p].intent \in {"reschedule", "cancel"}
    /\ life[q].intent \in {"reschedule", "cancel"}
    /\ life[p].target = life[q].target
    /\ life[p].conc /\ life[q].conc
    /\ proc[p].pc = "done" /\ proc[q].pc = "done"

\* C10 as stated: after two concurrent reschedules or cancels of one
\* appointment, every notification sent carries the fields the appointment
\* has after both writes.
C10_NotificationsCarryFinalState ==
    \A p, q \in Procs :
        BothWrote(p, q) /\ life[p].sent.occ \in Lifecycle =>
            Rendered(life[p].sent.row) = Rendered(appts[life[p].target])

\* C10 as amended: a reschedule or cancellation notification carries a state
\* of the appointment persisted at or after the sender's own write, never the
\* copy the sender looked up; it is the final state when no write followed the
\* read.
C10_NotificationsCarryAPersistedState ==
    \A p \in Procs :
        life[p].sent.occ \in {"reschedule", "cancellation"} =>
            /\ life[p].sent.row.ver >= life[p].wver
            /\ life[p].sent.row.ver > life[p].snap.ver
            /\ life[p].sent.row.ver = appts[life[p].target].ver =>
                Rendered(life[p].sent.row) = Rendered(appts[life[p].target])

\* two chat reschedules of one appointment: the first notified what the second
\* had written meanwhile
C10_Witness ==
    \E p, q \in Procs :
        /\ BothWrote(p, q)
        /\ proc[p].kind = "chat" /\ life[p].intent = "reschedule"
        /\ life[q].intent = "reschedule"
        /\ life[p].date # life[q].date
        /\ life[p].sent.occ = "reschedule"
        /\ life[p].sent.row.ver = life[p].wver + 1
        /\ life[p].sent.row.date = life[q].date
        /\ Rendered(life[p].sent.row) = Rendered(appts[life[p].target])

(***************************************************************************)
(* Properties of the scheduler.                                            *)
(***************************************************************************)
SweepRunning(p) == proc[p].kind = "sweep" /\ InFlight(p)

\* C11: two sweeps never run at the same time: while one sweep is between
\* its listing and the end of its loop, no other sweep is.
C11_SweepsNeverOverlap ==
    \A p, q \in Procs : SweepRunning(p) /\ SweepRunning(q) => p = q

(***************************************************************************)
(* Properties of the lookup.                                               *)
(***************************************************************************)
\* C12: when several non-terminal appointments match a lookup, the one
\* selected is the most recently created, whatever the order in which the
\* store lists them.
C12_MostRecentMatchSelected ==
    probe.kind # None /\ probe.found # None =>
        \A id \in probe.hits : appts[probe.found].created >= appts[id].created

\* the rule as stated: a non-terminal appointment with the intent's name
\* (whatever the case), or the intent's email, or the intent's phone (the
\* phone extracted from the text, or the number the SMS or call comes from)
StatedRule(a, e, from) ==
    /\ ~Terminal(a)
    /\ \/ e.name # None /\ Lower(a.name) = Lower(e.name)
       \/ e.email # None /\ a.email = e.email
       \/ a.phone # None /\ a.phone \in {e.phone, from}

\* C20: on every channel, reschedule and cancel select an appointment that
\* the stated rule accepts, and select one whenever the rule accepts one.
C20_OneLookupRule ==
    probe.kind # None =>
        LET ruled == {id \in AppIds : StatedRule(appts[id], probe.e, probe.from)} IN
        /\ ruled # {} => probe.found \in ruled
        /\ ruled = {} => probe.found = None

(***************************************************************************)
(* Properties of the appointment state machine.                            *)
(***************************************************************************)
\* C13: no step changes the status of an appointment that is cancelled or
\* completed.
C13_TerminalIsFinal ==
    [][\A id \in AppIds :
          Terminal(appts[id]) => appts'[id].status = appts[id].status]_vars

(***************************************************************************)
(* Properties of the booking path.                                         *)
(***************************************************************************)
\* the appointments a handler created
MadeBy(p) == {i \in DOMAIN made : made[i].op = life[p].op}

\* a booking with name, service, date and time that ran to its end
Booked(p) ==
    /\ proc[p].kind \in Turns /\ life[p].intent = "booking"
    /\ proc[p].pc = "done" /\ ~life[p].incomplete /\ ~life[p].storeErr

\* C14: on every channel a booking with name, service, date and time creates
\* exactly one appointment, pending, with the default amount, linked to the
\* turn's conversation if it has one; the conversation is then completed and
\* a confirmation is handed to the notifiers.
C14_BookingCreatesAndConfirms ==
    \A p \in Procs :
        Booked(p) =>
            /\ Cardinality(MadeBy(p)) = 1
            /\ \A i \in MadeBy(p) :
                /\ made[i].status = "pending"
                /\ made[i].amountCents = DefaultAmountCents
                /\ made[i].conversationId = life[p].cid
                /\ made[i].conversationId # None =>
                       conv[made[i].conversationId] = "completed"
            /\ life[p].sent.occ = "confirmation"

(***************************************************************************)
(* Properties across the paths of a reschedule or cancel.                  *)
(***************************************************************************)
\* a reschedule or cancel that wrote the appointment and ran to its end
\* with the store answering
Mutated(p) ==
    /\ proc[p].pc = "done" /\ life[p].intent \in {"reschedule", "cancel"}
    /\ life[p].wrote /\ ~life[p].storeErr

\* C15: whichever path (web chat, SMS webhook, voice gather, direct API)
\* wrote a reschedule or a cancel, it also handed the matching notification
\* to the notifiers, rendered from a state of the appointment not older than
\* its own write.
C15_EveryPathNotifiesFromPostWrite ==
    \A p \in Procs :
        Mutated(p) =>
            /\ life[p].sent.occ =
                   (IF life[p].intent = "reschedule" THEN "reschedule" ELSE "cancellation")
            /\ life[p].sent.row.ver >= life[p].wver

\* the replies that report an error to the caller
Errors == {"400", "404", "500", "twiml-error"}

\* C16: a booking, reschedule or cancel that answered with an error created
\* or modified no appointment.
C16_ErrorMeansNothingWritten ==
    \A p \in Procs :
        /\ proc[p].pc = "done" /\ proc[p].resp \in Errors
        /\ life[p].intent \in {"booking", "reschedule", "cancel"}
        => ~life[p].wrote

\* C17: for each appointment and each occasion, at most one dispatch reaches
\* the customer, whatever updates, payment confirmations and cancels are
\* applied to the appointment.
C17_AtMostOneDispatchPerOccasion ==
    \A id \in AppIds, occ \in Occasions : dispatched[id][occ] <= 1

(***************************************************************************)
(* Properties of the sweep beside updates and cancels.                     *)
(***************************************************************************)
\* a sweep is about to hand an appointment to a notifier
SweepDelivers(p) ==
    /\ proc[p].kind = "sweep" /\ proc[p].pc = "deliver"
    /\ att[p].apt.email # None \/ att[p].apt.phone # None

\* C18: the appointment a sweep is about to deliver a reminder for, as the
\* sweep last read it, is neither cancelled nor completed and is dated
\* exactly one calendar day after the current date.
C18_SweepDeliversOnlyDue ==
    \A p \in Procs :
        SweepDelivers(p) =>
            /\ ~Terminal(att[p].apt)
            /\ att[p].apt.date = DayOf(clock) + 1

\* the appointment is due, was never updated, and a sweep of the same day
\* has claimed it
ClaimedWhileDue(id) ==
    /\ IsUpcoming(appts[id], clock) /\ appts[id].ver = 0
    /\ appts[id].lastRem # <<>>
    /\ DayOf(appts[id].lastRem[1]) = DayOf(clock)

\* an invocation that read the appointment before any claim is at its claim
Unaware(id) ==
    \E p \in Procs :
        proc[p].pc = "claim" /\ att[p].target = id /\ att[p].apt.lastRem = <<>>

\* C19: while an appointment stays due, a sweep that has seen the claim of
\* an earlier sweep never claims the appointment again.
C19_ClaimedOnceWhileDue ==
    [][\A id \in AppIds :
          ClaimedWhileDue(id) /\ appts'[id].lastRem # appts[id].lastRem
              => Unaware(id)]_vars

(***************************************************************************)
(* Properties of the conversations.                                        *)
(***************************************************************************)
\* C21: no conversation is the originating conversation of two
\* appointments.
C21_OneAppointmentPerConversation ==
    \A i, j \in DOMAIN made :
        /\ made[i].conversationId # None
        /\ made[i].conversationId = made[j].conversationId
        => i = j

\* handler p answers its caller in this step
Ends(p) ==
    /\ proc'[p].pc = "done"
    /\ proc[p].pc # "done" \/ life'[p].op # life[p].op

\* C22: when a turn for which the Intent Resolver required escalation ends
\* (the store having answered every call), the stored status of its
\* conversation is escalated.
C22_EscalationIsStored ==
    [][\A p \in Procs :
          /\ Ends(p) /\ life'[p].intent = "booking"
          /\ life'[p].esc /\ ~life'[p].storeErr /\ life'[p].cid # None
          => conv'[life'[p].cid] = "escalated"]_vars

(***************************************************************************)
(* Properties of a dispatch.                                               *)
(***************************************************************************)
\* C23: a dispatch invokes the email notifier exactly when customerEmail is
\* set, the SMS notifier exactly when customerPhone is set, and the
\* directory sync whenever the sync is enabled; without email and phone it
\* attempts neither email nor SMS and raises no error.
C23_NotifiersFollowContactFields ==
    probe.kind = "dispatch" /\ ~probe.d.threw =>
        /\ "email" \in probe.invoked <=> probe.d.row.email # None
        /\ "sms" \in probe.invoked <=> probe.d.row.phone # None
        /\ "sync" \in probe.invoked <=> probe.sync
        /\ probe.d.row.email = None /\ probe.d.row.phone = None
               => probe.d.failed = {}

(***************************************************************************)
(* Properties of the scheduler.                                            *)
(***************************************************************************)
\* C24: a running sweep eventually finishes, also when a notifier call
\* never returns.
C24_SweepFinishesDespiteHungNotifier ==
    \A p \in Procs : SweepRunning(p) ~> ~SweepRunning(p)

\* the callback of a period that has gone by has not run yet
Pending == sched.timer # "off" /\ runs < Owed

\* C25: the scheduler starts a sweep when it is started, and after every
\* period that goes by one more sweep starts, whatever happened to the
\* sweeps before it.
C25_EveryPeriodStartsASweep ==
    /\ sched.timer = "off" ~> runs >= 1
    /\ Pending ~> ~Pending

\* the sweep started at the scheduler's start failed at its listing, and the
\* sweep of the next period is running
C25_Witness ==
    /\ sched.failed = 1 /\ runs = 2 /\ clock = PeriodHours
    /\ \E p \in Procs : SweepRunning(p)

(***************************************************************************)
(* Properties of a failed reminder.                                        *)
(***************************************************************************)
\* what is kept of the invocation that slot p ended last
LastEnded(p) ==
    IF proc[p].kind = "manual" THEN att[p] ELSE swp[p].log[Len(swp[p].log)]

\* the invocation in slot p ends its delivery in this step
Delivers(p) ==
    /\ InReminder(p) /\ proc[p].pc = "deliver"
    /\ IF proc[p].kind = "manual" THEN proc'[p].pc = "done"
       ELSE Len(swp'[p].log) > Len(swp[p].log)

\* every channel the invocation attempted failed
AllFailed(a) == a.attempts # {} /\ a.failed = a.attempts

\* C26: when the delivery of a reminder fails on every attempted channel,
\* the stored lastReminderSentAt is still the time of a claim not older than
\* the invocation's own and the invocation ends as a failure; and an
\* invocation that reads a stamp younger than 12 hours never goes on to
\* claim or deliver.
C26_FailedClaimStands ==
    [][\A p \in Procs :
          /\ Delivers(p) /\ AllFailed(LastEnded(p)')
             => /\ LastEnded(p)'.out = "error"
                /\ appts'[att[p].target].lastRem # <<>>
                /\ appts'[att[p].target].lastRem[1] >= att[p].claimAt[1]
          /\ InReminder(p) /\ proc[p].pc = "get" /\ proc'[p].pc = "claim"
             => ~InCooldown(appts[att[p].target], clock)]_vars

\* a manual trigger failed on every channel; a sweep that read the
\* appointment after its claim skipped it
C26_Witness ==
    \E p, q \in Procs :
        /\ proc[p].kind = "manual" /\ proc[p].pc = "done"
        /\ att[p].claimed /\ AllFailed(att[p]) /\ att[p].out = "error"
        /\ appts[att[p].target].lastRem # <<>>
        /\ proc[q].kind = "sweep"
        /\ \E b \in AttemptsOf(q) :
            /\ b.target = att[p].target /\ b.cool /\ ~b.claimed /\ b.out = "ok"

\* C27: an invocation that delivered the reminder on at least one attempted
\* channel ends without an error, also when another attempted channel failed.
C27_PartialDeliveryIsNotAnError ==
    \A p \in Procs : \A a \in AttemptsOf(p) :
        a.out # "none" /\ a.attempts \ a.failed # {} => a.out = "ok"

(***************************************************************************)
(* Properties of a cancel beside other operations.                         *)
(***************************************************************************)
\* the reschedule running in slot p takes a step on an appointment whose
\* stored status is cancelled
StepsOnCancelled(p, pc) ==
    /\ proc[p].kind \in Turns /\ life[p].intent = "reschedule"
    /\ proc[p].pc = pc /\ proc'[p].pc # pc
    /\ appts[life[p].target].status = "cancelled"

\* C28: a reschedule that is running when the appointment is cancelled
\* does not write to the appointment afterwards and sends no notification
\* for it.
C28_NothingAfterCancel ==
    [][\A p \in Procs :
          /\ StepsOnCancelled(p, "write")
             => appts'[life[p].target] = appts[life[p].target]
          /\ StepsOnCancelled(p, "reread")
             => life'[p].sent.occ = None]_vars

(***************************************************************************)
(* Properties of the writes.                                               *)
(***************************************************************************)
\* rows a and b agree outside the fields named (and the version counter)
SameBut(a, b, fields) ==
    \A f \in DOMAIN a \ (fields \cup {"ver"}) : a[f] = b[f]

\* every write of the appointment that followed the write of p was a cancel
OnlyCancelsSince(p) ==
    \A v \in (life[p].wver + 1)..appts[life[p].target].ver :
        \E q \in Procs :
            /\ life[q].intent = "cancel" /\ life[q].wrote
            /\ life[q].target = life[p].target /\ life[q].wver = v

\* C29: every write changes the fields of one operation only (reschedule:
\* date, time, service; cancel: status; reminder claim: lastReminderSentAt),
\* and the update of every operation that wrote is present in the stored
\* appointment: a cancel's status and a claim's stamp always, a reschedule's
\* date and time when only cancels wrote after it.
C29_NoLostUpdate ==
    /\ [][\A id \in AppIds :
            \/ SameBut(appts[id], appts'[id], {"date", "time", "service"})
            \/ SameBut(appts[id], appts'[id], {"status"})
            \/ SameBut(appts[id], appts'[id], {"lastRem"})]_vars
    /\ [](\A p \in Procs :
            /\ life[p].wrote /\ life[p].intent = "cancel"
               => appts[life[p].target].status = "cancelled"
            /\ life[p].wrote /\ life[p].intent = "reschedule" /\ OnlyCancelsSince(p)
               => /\ appts[life[p].target].date = life[p].date
                  /\ appts[life[p].target].time = life[p].time
            /\ \A a \in AttemptsOf(p) :
                 a.claimed => appts[a.target].lastRem # <<>>)

\* a reschedule wrote an appointment after the cancel that ran beside it:
\* the stored appointment is cancelled and carries the new date
C29_Witness ==
    \E p, q \in Procs :
        /\ life[p].intent = "reschedule" /\ life[p].wrote
        /\ life[q].intent = "cancel" /\ life[q].wrote
        /\ life[p].target = life[q].target /\ life[p].wver > life[q].wver
        /\ appts[life[p].target].status = "cancelled"
        /\ appts[life[p].target].date = life[p].date

(***************************************************************************)
(* Properties of a cancel delivered twice.                                 *)
(***************************************************************************)
\* C30: when a cancel that was answered without an error is delivered
\* again, the second delivery leaves every appointment's status as the
\* first left it, writes nothing and sends no notification.
C30_CancelIsIdempotent ==
    probe.kind = "retried" /\ probe.ok =>
        /\ Statuses = probe.after
        /\ \A p \in Procs : ~life[p].wrote /\ life[p].sent.occ = None

====
